---- MODULE Spec2Model ----
(***************************************************************************)
(* The request-validation pipeline of @explita/fastify-zod.                *)
(*                                                                         *)
(*   defineRoute        core/define-route.ts   the fluent route builder    *)
(*   schemaValidation   core/schema-validation.ts                          *)
(*   check, runChecks   core/check.ts          the check runner            *)
(*   fastifyZod         core/functions.ts      the plugin preHandler hook  *)
(*   formatErrors, isZodError, reject          lib/utils.ts                *)
(*                                                                         *)
(* JavaScript runs every synchronous segment to completion, so one action  *)
(* of the model is one segment of code between two awaits.  A promise that *)
(* is awaited resolves at an arbitrary later time; a promise that is not   *)
(* awaited runs on as a task of its own.                                   *)
(***************************************************************************)
EXTENDS Integers, Sequences, FiniteSets, TLC

(***************************************************************************)
(* Bounds of the model.                                                    *)
(***************************************************************************)
\* longest check list a builder accumulates, and longest validation.check
MaxChecks == 2
\* longest pre-step list a builder accumulates
MaxPre == 2

(***************************************************************************)
(* JavaScript values.  A value is a tagged tuple; an object is a function  *)
(* from keys to values.  A key is its string cut into tokens, every "_"    *)
(* being a token of its own: "_status" is <<"_", "status">>.               *)
(***************************************************************************)
Undefined == <<"undefined">>
Str(s) == <<"str", s>>
Num(n) == <<"num", n>>
Bool(b) == <<"bool", b>>
Obj(m) == <<"obj", m>>
List(s) == <<"list", s>>
EmptyObj == << >>

IsObj(v) == v[1] = "obj"
\* ToBoolean of the values the model uses
Truthy(v) ==
    /\ v # Undefined
    /\ v # Str("")
    /\ v # Num(0)
    /\ v # Bool(FALSE)

\* obj[k] = v
Put(obj, k, v) == [y \in (DOMAIN obj) \cup {k} |-> IF y = k THEN v ELSE obj[y]]
\* obj[k]
Get(obj, k) == IF k \in DOMAIN obj THEN obj[k] ELSE Undefined
\* { ...a, ...b }
Spread(a, b) == [y \in (DOMAIN a) \cup (DOMAIN b) |-> IF y \in DOMAIN b THEN b[y] ELSE a[y]]

\* k.startsWith("_")
startsWith(k) == Len(k) > 0 /\ k[1] = "_"
\* k.replace("_", ""): the first "_" of k is removed
replace(k) ==
    IF \E i \in 1..Len(k) : k[i] = "_"
    THEN LET i == CHOOSE i \in 1..Len(k) :
                      k[i] = "_" /\ \A j \in 1..(i - 1) : k[j] # "_"
         IN  SubSeq(k, 1, i - 1) \o SubSeq(k, i + 1, Len(k))
    ELSE k

\* the sequences over S of length at most n
BoundedSeq(S, n) == UNION {[1..m -> S] : m \in 0..n}

(***************************************************************************)
(* The check functions and pre-steps the application hands to the library. *)
(* A check function is identified by what it returns: nothing, or a        *)
(* mapping, given as its Object.entries in insertion order.                *)
(***************************************************************************)
Void == [some |-> FALSE, entries |-> << >>]
Mapping(es) == [some |-> TRUE, entries |-> es]
Entry(k, v) == [k |-> k, v |-> v]

KErrors == <<"errors">>
KMessage == <<"message">>
KStatusCode == <<"statusCode">>

\* a Record<string, string> literal: its entries in insertion order
Rec(es) == <<"rec", es>>

\* a reject that wraps a string under the key message, without underscore
reject_plainKey(message) ==
    IF message[1] = "str"
    THEN Mapping(<<Entry(<<"message">>, message)>>)
    ELSE Mapping(message[2])

\* reject(message): lib/utils.ts
reject(message) ==
    IF message[1] = "str"
    THEN Mapping(<<Entry(<<"_", "message">>, message)>>)
    ELSE Mapping(message[2])

\* what check function fn resolves to
CheckFn(fn) ==
    CASE fn = "B"      -> Void
      [] fn = "C"      -> Mapping(<<Entry(<<"name">>, Str("c"))>>)
      [] fn = "void"   -> Void
      [] fn = "empty"  -> Mapping(<< >>)
      [] fn = "x1"     -> Mapping(<<Entry(<<"x">>, Str("m1"))>>)
      [] fn = "x2"     -> Mapping(<<Entry(<<"x">>, Str("m2")),
                                   Entry(<<"_", "status">>, Str("s2"))>>)
      [] fn = "status" -> Mapping(<<Entry(<<"_", "status">>, Str("s1")),
                                   Entry(<<"_", "_", "meta">>, Num(401))>>)
      [] fn = "errs"   -> Mapping(<<Entry(<<"x">>, Str("m3")),
                                   Entry(<<"_", "errors">>, Str("e"))>>)
      [] fn = "reject" -> reject(Str("r"))
      [] fn = "rejectMap" -> reject(Rec(<<Entry(<<"x">>, Str("m1"))>>))
      [] OTHER         -> Void

\* typeof x === "function"
IsFunction(fn) == fn # "notfn"

\* the check functions given to a builder's check()
BuilderCheckFns == {"B", "C"}
\* the arguments of check(fn | fn[])
CheckArgs == {<<"B">>, <<"C">>, <<"B", "C">>}
\* the functions given to a builder's pre(): "A" returns, "deny" sends a 401
PreFns == {"A", "deny"}

Sources == <<"body", "query", "params">>
Requests == {"r1", "r2"}
Methods == {"POST", "GET"}

(***************************************************************************)
(* Schemas.  A schema slot holds "none" (no schema configured), "zod" (a   *)
(* Zod schema) or "bad" (a truthy value without a parse function).  The    *)
(* Zod schema of the model coerces to a number: it turns the string "7"    *)
(* into the number 7 and rejects every other string with issues that       *)
(* depend on the value.  A path is a sequence of elements, an element its  *)
(* string cut into tokens, every "." and "_" being a token of its own.     *)
(***************************************************************************)
Slots == {"none", "zod", "bad"}
RawValues == {Str("7"), Str("x")}

Issue(path, message) == [path |-> path, message |-> message]

\* schema.parseAsync(value): the parsed data, or a ZodError with its issues
parseAsync(value) ==
    IF value \in {Str("7"), Num(7)}
    THEN [ok |-> TRUE, data |-> Num(7), issues |-> << >>]
    ELSE [ok |-> FALSE, data |-> Undefined,
          issues |-> CASE value = Str("y") ->
                            <<Issue(<<<<"id">>>>, "Expected number"),
                              Issue(<<<<"name">>>>, "Required")>>
                       [] value = Str("q") -> <<Issue(<<<<"page">>>>, "Invalid page")>>
                       [] OTHER -> <<Issue(<<<<"id">>>>, "Expected number")>>]

\* issue.path.join("."), as a key
join(path) ==
    LET RECURSIVE J(_)
        J(i) == IF i > Len(path) THEN << >>
                ELSE IF i = Len(path) THEN path[i]
                ELSE path[i] \o <<".">> \o J(i + 1)
    IN  J(1)

\* issue.path.join(".") || "_root"
pathKey(issue) == IF join(issue.path) = << >> THEN <<"_", "root">> ELSE join(issue.path)

\* a formatErrors whose flat mode keeps the first message of a path
formatErrors_firstWins(issues, format) ==
    LET RECURSIVE Flat(_, _)
        Flat(acc, i) ==
            IF i > Len(issues) THEN acc
            ELSE Flat(Spread(Put(EmptyObj, pathKey(issues[i]), Str(issues[i].message)), acc),
                      i + 1)
    IN  IF format = "flat" THEN Obj(Flat(EmptyObj, 1))
        ELSE IF format = "detailed" THEN List(issues)
        ELSE Obj(EmptyObj)

\* keys every object literal {} inherits from Object.prototype (those the
\* model's paths can spell); their inherited values are functions
ObjectPrototype == {<<"toString">>, <<"constructor">>}
\* a call that threw a TypeError
Thrown == <<"throw", "TypeError">>

\* formatErrors(issues, format): lib/utils.ts
formatErrors(issues, format) ==
    LET RECURSIVE Flat(_, _)
        Flat(acc, i) ==
            IF i > Len(issues) THEN acc
            ELSE Flat(Spread(acc, Put(EmptyObj, pathKey(issues[i]), Str(issues[i].message))),
                      i + 1)
        \* acc[path] of an acc that began as {}: its own entry, or what it inherits
        RECURSIVE Simple(_, _)
        Simple(acc, i) ==
            IF i > Len(issues) THEN Obj(acc)
            ELSE LET path == pathKey(issues[i])
                     a1   == IF ~Truthy(Get(acc, path)) THEN Put(acc, path, List(<< >>))
                             ELSE acc
                 IN  IF path \notin DOMAIN acc /\ path \in ObjectPrototype
                     \* !acc[path] is false and acc[path].push is no function
                     THEN Thrown
                     ELSE Simple(Put(a1, path,
                                     List(Append(a1[path][2], Str(issues[i].message)))),
                                 i + 1)
    IN  IF format = "flat" THEN Obj(Flat(EmptyObj, 1))
        ELSE IF format = "detailed" THEN List(issues)
        ELSE Simple(EmptyObj, 1)

\* a custom formatter of the application (README, Custom Error Formatter)
formatter(issues) ==
    Obj(Put(Put(EmptyObj, <<"success">>, Bool(FALSE)), KErrors, List(issues)))

\* isZodError(error): lib/utils.ts; an error is [issues |-> a value]
isZodError(error) ==
    /\ Truthy(error.issues)
    /\ error.issues[1] = "list"
    /\ \A i \in 1..Len(error.issues[2]) :
          {"path", "message"} \subseteq DOMAIN error.issues[2][i]

ZodError(issues) == [issues |-> List(issues)]
PlainError == [issues |-> Undefined]

\* PluginOptions: types.ts
Config(h, f, s) ==
    [given |-> TRUE, hint |-> h, format |-> f, verbose |-> FALSE,
     soft |-> s, formatter |-> FALSE]
NoConfig ==
    [given |-> FALSE, hint |-> Undefined, format |-> "", verbose |-> FALSE,
     soft |-> FALSE, formatter |-> FALSE]

\* the schema argument of defineRoute: { config, body, query, params }; hint
\* is the key the fastify.schema decorator adds, absent otherwise
SchemaArg(cfg, b, q, p) ==
    [given |-> TRUE, config |-> cfg, body |-> b, query |-> q, params |-> p,
     hint |-> Undefined]

\* a schema-failure response that always uses the built-in formatErrors
SchemaFailure_builtin(r, cfg, issues) ==
    [by |-> "schema", status |-> 400,
     body |-> [y \in {<<"requestId">>, <<"success">>, KMessage, KErrors, <<"timestamp">>} |->
                  CASE y = <<"requestId">> -> Str(r)
                    [] y = <<"success">>   -> Bool(FALSE)
                    [] y = KMessage        -> cfg.hint
                    [] y = KErrors         -> formatErrors(issues, cfg.format)
                    [] OTHER               -> Str("now")]]

\* defineRoute(fastify): no schema argument
NoSchemaArg ==
    [given |-> FALSE, config |-> NoConfig, body |-> "none", query |-> "none",
     params |-> "none", hint |-> Undefined]

\* fastify.schema(config): defineRoute(this, { ...config, hint }) with the
\* plugin's hint
fastify_schema(opts, config) == [config EXCEPT !.given = TRUE, !.hint = opts.hint]

\* the body of a schema-failure response
SchemaFailure(r, cfg, issues) ==
    [by |-> "schema", status |-> 400,
     body |-> [y \in {<<"requestId">>, <<"success">>, KMessage, KErrors, <<"timestamp">>} |->
                  CASE y = <<"requestId">> -> Str(r)
                    [] y = <<"success">>   -> Bool(FALSE)
                    [] y = KMessage        -> cfg.hint
                    [] y = KErrors         -> IF cfg.formatter THEN formatter(issues)
                                              ELSE formatErrors(issues, cfg.format)
                    [] OTHER               -> Str("now")]]

\* the body of a check-failure response: { statusCode: 400, message, ...errors }
CheckFailure(message, errors) ==
    [by |-> "checks", status |-> 400,
     body |-> Spread(Put(Put(EmptyObj, KStatusCode, Num(400)), KMessage, message), errors)]

\* what a pre-step sends when it refuses the request
Denied == [by |-> "pre", status |-> 401, body |-> EmptyObj]

VARIABLES
    checks,        \* defineRoute: const checks
    preHandlers,   \* defineRoute: const preHandlers
    schema,        \* defineRoute(fastify, schema): the builder's schema argument
    routes,        \* the routes registered with the host, each with the length
                   \* checks had when it was registered
    options,       \* fastifyZod: the plugin's effective options
    routeOptions,  \* onRoute: config._zodSchema and config._routeChecks
    pc,            \* per request: where its preHandler and the host stand
    route,         \* per request: the route it is for
    received,      \* per request: the body, query and params it arrived with
    fields,        \* per request: request.body, request.query, request.params
    hint,          \* per request: req.hint
    preIdx,        \* per request: position of the loop over preHandlers
    sv,            \* per request: the call of schemaValidation / the hook's try block
    ck,            \* per request: the call of check
    replies,       \* per request: the reply.send calls, in order
    calls,         \* per request: the pre-steps and checks invoked, in order
    issueList,     \* formatErrors: its issues argument
    formatted      \* formatErrors: its format argument and what it returned

builderVars == <<checks, preHandlers, schema, routes>>
pluginVars == <<options, routeOptions>>
requestVars == <<pc, route, received, fields, hint, preIdx, sv, ck, replies, calls>>
formatVars == <<issueList, formatted>>
vars == <<checks, preHandlers, schema, routes, options, routeOptions,
          pc, route, received, fields, hint, preIdx, sv, ck, replies, calls,
          issueList, formatted>>

\* one value held for all requests instead of one per request
Upd_shared(f, r, v) == [y \in DOMAIN f |-> v]

Upd(f, r, v) == [f EXCEPT ![r] = v]

(***************************************************************************)
(* The builder: defineRoute (core/define-route.ts).  The application       *)
(* composes its routes before the server listens (README, Quick Start and  *)
(* Chaining API), so the builder is called while no request has arrived.   *)
(***************************************************************************)
\* no request has reached the server yet
Composing == \A r \in Requests : pc[r] \in {"idle", "absent"}

\* builder.check(fn | fn[]): checks.push(...fns)
builder_check(fns) ==
    /\ Composing
    /\ Len(checks) + Len(fns) <= MaxChecks
    /\ checks' = checks \o fns
    /\ UNCHANGED <<formatVars, preHandlers, schema, routes, pluginVars, requestVars>>

\* a pre that puts fn at the front of the list: preHandlers.unshift(fn)
builder_pre_unshift(fn) ==
    /\ Composing
    /\ Len(preHandlers) < MaxPre
    /\ preHandlers' = <<fn>> \o preHandlers
    /\ UNCHANGED <<formatVars, checks, schema, routes, pluginVars, requestVars>>

\* builder.pre(fn): preHandlers.push(fn)
builder_pre(fn) ==
    /\ Composing
    /\ Len(preHandlers) < MaxPre
    /\ preHandlers' = Append(preHandlers, fn)
    /\ UNCHANGED <<formatVars, checks, schema, routes, pluginVars, requestVars>>

\* a registration that replaces the routes registered before it
Register_replacing(m, v) == [y \in {m} |-> v]

\* route[m] = v added to the routes
Register(m, v) == [y \in (DOMAIN routes) \cup {m} |-> IF y = m THEN v ELSE routes[y]]

\* builder.post, builder.get: make(method)(url, handler) registers one route
make(method) ==
    /\ Composing
    /\ method \notin DOMAIN routes
    /\ routes' = Register(method, Len(checks))
    /\ UNCHANGED <<formatVars, checks, preHandlers, schema, pluginVars, requestVars>>

(***************************************************************************)
(* The check runner: check and runChecks (core/check.ts).                  *)
(***************************************************************************)
\* the list a request's call of check iterates: the builder's live array,
\* or the route's validation.check
currentChecks(r) ==
    IF route[r] = "HOOK" THEN routeOptions._routeChecks.list ELSE checks

\* a loop that ends at the first entry that is not a function
nextFunction_break(list, i) ==
    IF i <= Len(list) /\ IsFunction(list[i]) THEN i ELSE Len(list) + 1

\* the first index from i on whose entry is a function, or one past the end
nextFunction(list, i) ==
    LET S == {j \in i..Len(list) : IsFunction(list[j])}
    IN  IF S = {} THEN Len(list) + 1
        ELSE CHOOSE j \in S : \A k \in S : j <= k

\* one callback of Object.entries(result).forEach: m is [obj, threw]
mergeEntry(m, e) ==
    IF m.threw THEN m
    ELSE IF startsWith(e.k)
    THEN [m EXCEPT !.obj = Put(m.obj, replace(e.k), e.v)]
    ELSE LET o1 == IF ~Truthy(Get(m.obj, KErrors))
                   THEN Put(m.obj, KErrors, Obj(EmptyObj))
                   ELSE m.obj
         IN  IF IsObj(o1[KErrors])
             THEN [m EXCEPT !.obj = Put(o1, KErrors, Obj(Put(o1[KErrors][2], e.k, e.v)))]
             \* a property cannot be created on a string or a number
             ELSE [obj |-> o1, threw |-> TRUE]

\* if (result) Object.entries(result).forEach(...)
merge(errorsObject, result) ==
    LET RECURSIVE M(_, _)
        M(m, i) == IF i > Len(result.entries) THEN m
                   ELSE M(mergeEntry(m, result.entries[i]), i + 1)
    IN  IF result.some THEN M([obj |-> errorsObject, threw |-> FALSE], 1)
        ELSE [obj |-> errorsObject, threw |-> FALSE]

\* the call of check: where it stands, the entry it awaits, its accumulator,
\* and the entries whose check function was invoked and has not settled
CkIdle == [st |-> "none", idx |-> 0, errorsObject |-> EmptyObj, pending |-> {}]

\* a loop that invokes every remaining check function without awaiting the
\* one before it
checkFrom_noAwait(list, i, errorsObject) ==
    LET j == nextFunction(list, i)
    IN  IF j <= Len(list)
        THEN [st |-> "await", idx |-> j, errorsObject |-> errorsObject,
              pending |-> {k \in j..Len(list) : IsFunction(list[k])}]
        ELSE [st |-> "returned", idx |-> j, errorsObject |-> errorsObject, pending |-> {}]

\* check, from entry i of its loop up to its next await (or its return):
\* the state of the call, and the check function it invokes
checkFrom(list, i, errorsObject) ==
    LET j == nextFunction(list, i)
    IN  IF j <= Len(list)
        THEN [st |-> "await", idx |-> j, errorsObject |-> errorsObject, pending |-> {j}]
        ELSE [st |-> "returned", idx |-> j, errorsObject |-> errorsObject, pending |-> {}]

\* the calls of check functions that took c to where it stands, in list order
invoked(c, list) ==
    LET RECURSIVE I(_)
        I(j) == IF j > Len(list) THEN << >>
                ELSE IF j \in c.pending THEN <<<<"check", list[j]>>>> \o I(j + 1)
                ELSE I(j + 1)
    IN  I(1)

\* check: the awaited check function has resolved; its result is merged and
\* the loop goes on to the next function
check(r) ==
    /\ ck[r].st = "await"
    /\ LET list == currentChecks(r)
           m    == merge(ck[r].errorsObject, CheckFn(list[ck[r].idx]))
           c    == IF m.threw
                   THEN [st |-> "rejected", idx |-> ck[r].idx, errorsObject |-> m.obj,
                         pending |-> {}]
                   ELSE checkFrom(list, ck[r].idx + 1, m.obj)
           left == ck[r].pending \ {ck[r].idx}
       IN  /\ ck' = Upd(ck, r, [c EXCEPT !.pending = c.pending \cup left])
           /\ calls' = Upd(calls, r, calls[r] \o invoked(c, list))
    /\ UNCHANGED <<formatVars, builderVars, pluginVars, pc, route, received, fields, hint, preIdx, sv, replies>>

\* runChecks: check has returned; a non-empty error object is sent as a 400
runChecks(r) ==
    /\ route[r] # "HOOK"
    /\ ck[r].st = "returned"
    /\ ck' = Upd(ck, r, [ck[r] EXCEPT !.st = "done"])
    /\ replies' = Upd(replies, r,
                      IF DOMAIN ck[r].errorsObject # {}
                      THEN Append(replies[r], CheckFailure(hint[r], ck[r].errorsObject))
                      ELSE replies[r])
    /\ UNCHANGED <<formatVars, builderVars, pluginVars, pc, route, received, fields, hint, preIdx, sv, calls>>

(***************************************************************************)
(* schemaValidation (core/schema-validation.ts).                           *)
(***************************************************************************)
SvIdle == [st |-> "none", src |-> 0, result |-> Undefined]

\* a try block that takes the configured sources from params back to body
validateFrom_paramsFirst(sch, cfg, i) ==
    LET S == {j \in 1..(Len(Sources) + 1 - i) : sch[Sources[j]] # "none"}
    IN  IF S = {} THEN [st |-> "done", src |-> 0, result |-> Bool(FALSE)]
        ELSE LET j == CHOOSE j \in S : \A k \in S : j >= k
             IN  IF sch[Sources[j]] = "zod"
                 THEN [st |-> "await", src |-> j, result |-> Undefined]
                 ELSE IF cfg.soft
                 THEN [st |-> "done", src |-> j, result |-> Undefined]
                 ELSE [st |-> "rejected", src |-> j, result |-> Undefined]

\* a try block that throws on a value without parse whatever soft is
validateFrom_noSoft(sch, cfg, i) ==
    LET S == {j \in i..Len(Sources) : sch[Sources[j]] # "none"}
    IN  IF S = {} THEN [st |-> "done", src |-> 0, result |-> Bool(FALSE)]
        ELSE LET j == CHOOSE j \in S : \A k \in S : j <= k
             IN  IF sch[Sources[j]] = "zod"
                 THEN [st |-> "await", src |-> j, result |-> Undefined]
                 ELSE [st |-> "rejected", src |-> j, result |-> Undefined]

\* a try block that parses every source, with a schema or without
validateFrom_everySource(sch, cfg, i) ==
    IF i > Len(Sources) THEN [st |-> "done", src |-> 0, result |-> Bool(FALSE)]
    ELSE IF sch[Sources[i]] # "bad"
    THEN [st |-> "await", src |-> i, result |-> Undefined]
    ELSE IF cfg.soft
    THEN [st |-> "done", src |-> i, result |-> Undefined]
    ELSE [st |-> "rejected", src |-> i, result |-> Undefined]

\* the try block from source i on, up to its next await, return or throw
validateFrom(sch, cfg, i) ==
    LET S == {j \in i..Len(Sources) : sch[Sources[j]] # "none"}
    IN  IF S = {} THEN [st |-> "done", src |-> 0, result |-> Bool(FALSE)]
        ELSE LET j == CHOOSE j \in S : \A k \in S : j <= k
             IN  IF sch[Sources[j]] = "zod"
                 THEN [st |-> "await", src |-> j, result |-> Undefined]
                 ELSE IF cfg.soft
                 THEN [st |-> "done", src |-> j, result |-> Undefined]
                 \* new Error(...) is no ZodError: the catch block throws it again
                 ELSE IF isZodError(PlainError)
                 THEN [st |-> "done", src |-> j, result |-> Bool(TRUE)]
                 ELSE [st |-> "rejected", src |-> j, result |-> Undefined]

\* schemaValidation, from its call up to its first await
schemaValidationCall(sch, cfg) ==
    IF /\ \A i \in 1..Len(Sources) : sch[Sources[i]] = "none"
       /\ sch["hint"] = Undefined
    THEN [st |-> "done", src |-> 0, result |-> Bool(FALSE)]
    ELSE IF ~cfg.given
    THEN [st |-> "rejected", src |-> 0, result |-> Undefined]
    ELSE validateFrom(sch, cfg, 1)

\* schemaValidation: the awaited parseAsync has settled
schemaValidation(r) ==
    /\ route[r] # "HOOK"
    /\ sv[r].st = "await"
    /\ LET s   == Sources[sv[r].src]
           res == parseAsync(fields[r][s])
       IN  IF res.ok
           THEN /\ fields' = Upd(fields, r, [fields[r] EXCEPT ![s] = res.data])
                /\ sv' = Upd(sv, r, validateFrom(schema, schema.config, sv[r].src + 1))
                /\ UNCHANGED replies
           ELSE /\ UNCHANGED fields
                /\ IF isZodError(ZodError(res.issues))
                   THEN /\ replies' = Upd(replies, r,
                               Append(replies[r], SchemaFailure(r, schema.config, res.issues)))
                        /\ sv' = Upd(sv, r, [sv[r] EXCEPT !.st = "done", !.result = Bool(TRUE)])
                   ELSE /\ UNCHANGED replies
                        /\ sv' = Upd(sv, r, [sv[r] EXCEPT !.st = "rejected"])
    /\ UNCHANGED <<formatVars, builderVars, pluginVars, pc, route, received, hint, preIdx, ck, calls>>

(***************************************************************************)
(* The route-level preHandler that make(method) registers                  *)
(* (core/define-route.ts), and the host that calls it.                     *)
(***************************************************************************)
\* const { config, ...schemaObj } = schema
schemaObj == [s \in {"body", "query", "params", "hint"} |-> schema[s]]

\* preHandler from entry i of its loop over preHandlers on: up to the next
\* awaited pre-step, or past the loop through schemaValidation(...),
\* runChecks(...) and the verbose log to its end
preHandlerFrom(r, i) ==
    LET j == nextFunction(preHandlers, i)
    IN  /\ preIdx' = Upd(preIdx, r, j)
        /\ IF j <= Len(preHandlers)
           THEN /\ pc' = Upd(pc, r, "awaitPre")
                /\ calls' = Upd(calls, r, Append(calls[r], <<"pre", preHandlers[j]>>))
                /\ replies' = Upd(replies, r,
                                  IF preHandlers[j] = "deny"
                                  THEN Append(replies[r], Denied)
                                  ELSE replies[r])
                /\ UNCHANGED <<sv, ck>>
           ELSE LET s == schemaValidationCall(schemaObj, schema.config)
                    c == checkFrom(checks, 1, EmptyObj)
                IN  /\ sv' = Upd(sv, r, s)
                    /\ ck' = Upd(ck, r, c)
                    /\ calls' = Upd(calls, r, calls[r] \o invoked(c, checks))
                    \* config.verbose throws when config is undefined
                    /\ pc' = Upd(pc, r, IF schema.config.given THEN "resolved"
                                        ELSE "rejected")
                    /\ UNCHANGED replies

\* the host calls preHandler(req, rep)
preHandler(r) ==
    /\ pc[r] = "start"
    /\ route[r] # "HOOK"
    /\ IF ~schema.given
       \* destructuring undefined throws
       THEN /\ pc' = Upd(pc, r, "rejected")
            /\ UNCHANGED <<hint, preIdx, sv, ck, replies, calls>>
       ELSE /\ hint' = Upd(hint, r, schema.config.hint)
            /\ preHandlerFrom(r, 1)
    /\ UNCHANGED <<formatVars, builderVars, pluginVars, route, received, fields>>

\* await pre(req, rep) has resolved
preResolved(r) ==
    /\ pc[r] = "awaitPre"
    /\ preHandlerFrom(r, preIdx[r] + 1)
    /\ UNCHANGED <<formatVars, builderVars, pluginVars, route, received, fields, hint>>

\* the host, once the preHandler's promise has settled: it stops when the
\* reply was sent, reports a rejection, and calls the route handler otherwise
hostNext(r) ==
    /\ pc[r] \in {"resolved", "rejected"}
    /\ pc' = Upd(pc, r, IF pc[r] = "rejected" THEN "error"
                        ELSE IF replies[r] # << >> THEN "halted"
                        ELSE "handler")
    /\ UNCHANGED <<formatVars, builderVars, pluginVars, route, received, fields, hint, preIdx, sv, ck,
                   replies, calls>>

\* a request for a registered route reaches the preHandler stage
Inputs == [body : RawValues, query : {Str("7")}, params : RawValues]
\* the requests to a builder's routes: params parse, body may not
BuilderInputs == [body : RawValues, query : {Str("7")}, params : {Str("7")}]

arrive(r, m, input) ==
    /\ pc[r] = "idle"
    /\ m \in DOMAIN routes
    /\ pc' = Upd(pc, r, "start")
    /\ route' = Upd(route, r, m)
    /\ received' = Upd(received, r, input)
    /\ fields' = Upd(fields, r, input)
    /\ UNCHANGED <<formatVars, builderVars, pluginVars, hint, preIdx, sv, ck, replies, calls>>

(***************************************************************************)
(* The builder and the requests to its routes.                             *)
(***************************************************************************)
DefaultHint == Str("Invalid data submitted")

BuilderSchemas ==
    {SchemaArg(Config(Str("Bad input"), "simple", FALSE), b, "none", p) :
        b \in {"none", "zod"}, p \in {"none", "zod"}}

NoRouteOptions ==
    [_zodSchema |-> [given |-> FALSE, body |-> "none", query |-> "none", params |-> "none"],
     _routeChecks |-> [given |-> FALSE, list |-> << >>]]

InitRequests ==
    /\ pc = [r \in Requests |-> IF r = "r1" THEN "idle" ELSE "absent"]
    /\ route = [r \in Requests |-> "none"]
    /\ received = [r \in Requests |-> [body |-> Undefined, query |-> Undefined,
                                       params |-> Undefined]]
    /\ fields = [r \in Requests |-> [body |-> Undefined, query |-> Undefined,
                                     params |-> Undefined]]
    /\ hint = [r \in Requests |-> Undefined]
    /\ preIdx = [r \in Requests |-> 0]
    /\ sv = [r \in Requests |-> SvIdle]
    /\ ck = [r \in Requests |-> CkIdle]
    /\ replies = [r \in Requests |-> << >>]
    /\ calls = [r \in Requests |-> << >>]

\* formatErrors has not been called
NotFormatted == [format |-> "", value |-> Undefined]
InitFormatVars ==
    /\ issueList = << >>
    /\ formatted = NotFormatted

Init ==
    /\ checks = << >>
    /\ preHandlers = << >>
    /\ schema \in BuilderSchemas
    /\ routes = << >>
    /\ options = Config(DefaultHint, "flat", FALSE)
    /\ routeOptions = NoRouteOptions
    /\ InitRequests
    /\ InitFormatVars

Next ==
    \/ \E fns \in CheckArgs : builder_check(fns)
    \/ \E fn \in PreFns : builder_pre(fn)
    \/ \E m \in Methods : make(m)
    \/ \E r \in Requests, m \in Methods, input \in BuilderInputs : arrive(r, m, input)
    \/ \E r \in Requests : preHandler(r)
    \/ \E r \in Requests : preResolved(r)
    \/ \E r \in Requests : schemaValidation(r)
    \/ \E r \in Requests : check(r)
    \/ \E r \in Requests : runChecks(r)
    \/ \E r \in Requests : hostNext(r)

Spec == Init /\ [][Next]_vars

(***************************************************************************)
(* The plugin: fastifyZod (core/functions.ts), its onRoute hook and its    *)
(* preHandler hook, for routes that carry a validation option.             *)
(***************************************************************************)
\* the options fastifyZod resolves from opts; opts maps the names given
fastifyZod(opts) ==
    [given     |-> TRUE,
     hint      |-> IF "hint" \in DOMAIN opts THEN opts.hint ELSE DefaultHint,
     format    |-> IF "format" \in DOMAIN opts THEN opts.format ELSE "flat",
     verbose   |-> IF "verbose" \in DOMAIN opts THEN opts.verbose ELSE TRUE,
     formatter |-> IF "formatter" \in DOMAIN opts THEN opts.formatter ELSE FALSE,
     soft      |-> IF "soft" \in DOMAIN opts THEN opts.soft ELSE FALSE]

\* validation.schema of a route
ZodSchema(b, q, p) == [given |-> TRUE, body |-> b, query |-> q, params |-> p]
\* validation.check of a route
RouteChecks(list) == [given |-> TRUE, list |-> list]

\* the onRoute hook: a route with a validation option is registered
onRoute(sch, cks) ==
    /\ Composing
    /\ "HOOK" \notin DOMAIN routes
    /\ routes' = Register("HOOK", Len(cks.list))
    /\ routeOptions' = [_zodSchema |-> sch, _routeChecks |-> cks]
    /\ UNCHANGED <<formatVars, checks, preHandlers, schema, options, requestVars>>

\* the preHandler hook from source i of its try block on: up to the next
\* await, or through the call of check to its await, or to its end
hookFrom(r, i) ==
    LET zod == routeOptions._zodSchema
        s   == IF zod.given THEN validateFrom(zod, options, i)
               ELSE [st |-> "done", src |-> 0, result |-> Bool(FALSE)]
        rc  == routeOptions._routeChecks
        c   == checkFrom(rc.list, 1, EmptyObj)
    IN  /\ sv' = Upd(sv, r, s)
        /\ IF s.st = "await"
           THEN /\ pc' = Upd(pc, r, "awaitParse")
                /\ UNCHANGED <<ck, calls>>
           ELSE IF s.st = "rejected"
           THEN /\ pc' = Upd(pc, r, "rejected")
                /\ UNCHANGED <<ck, calls>>
           ELSE IF s.result = Undefined
           \* if (soft) return
           THEN /\ pc' = Upd(pc, r, "resolved")
                /\ UNCHANGED <<ck, calls>>
           ELSE IF rc.given
           THEN /\ pc' = Upd(pc, r, "awaitCheck")
                /\ ck' = Upd(ck, r, c)
                /\ calls' = Upd(calls, r, calls[r] \o invoked(c, rc.list))
           ELSE /\ pc' = Upd(pc, r, "resolved")
                /\ UNCHANGED <<ck, calls>>

\* the host calls the preHandler hook
hook(r) ==
    /\ pc[r] = "start"
    /\ route[r] = "HOOK"
    /\ hookFrom(r, 1)
    /\ UNCHANGED <<formatVars, builderVars, pluginVars, route, received, fields, hint, preIdx, replies>>

\* a hook that gives the request its original fields back when a parse fails
hookParsed_rollback(r) ==
    /\ pc[r] = "awaitParse"
    /\ LET s   == Sources[sv[r].src]
           res == parseAsync(fields[r][s])
       IN  IF res.ok
           THEN /\ fields' = Upd(fields, r, [fields[r] EXCEPT ![s] = res.data])
                /\ hookFrom(r, sv[r].src + 1)
                /\ UNCHANGED replies
           ELSE /\ fields' = Upd(fields, r, received[r])
                /\ UNCHANGED <<ck, calls>>
                /\ replies' = Upd(replies, r,
                       Append(replies[r], SchemaFailure(r, options, res.issues)))
                /\ sv' = Upd(sv, r, [sv[r] EXCEPT !.st = "done", !.result = Bool(TRUE)])
                /\ pc' = Upd(pc, r, "resolved")
    /\ UNCHANGED <<formatVars, builderVars, pluginVars, route, received, hint, preIdx>>

\* the hook's awaited parseAsync has settled
hookParsed(r) ==
    /\ pc[r] = "awaitParse"
    /\ LET s   == Sources[sv[r].src]
           res == parseAsync(fields[r][s])
       IN  IF res.ok
           THEN /\ fields' = Upd(fields, r, [fields[r] EXCEPT ![s] = res.data])
                /\ hookFrom(r, sv[r].src + 1)
                /\ UNCHANGED replies
           ELSE /\ UNCHANGED <<fields, ck, calls>>
                /\ IF isZodError(ZodError(res.issues))
                   THEN /\ replies' = Upd(replies, r,
                               Append(replies[r], SchemaFailure(r, options, res.issues)))
                        /\ sv' = Upd(sv, r, [sv[r] EXCEPT !.st = "done", !.result = Bool(TRUE)])
                        /\ pc' = Upd(pc, r, "resolved")
                   ELSE /\ UNCHANGED replies
                        /\ sv' = Upd(sv, r, [sv[r] EXCEPT !.st = "rejected"])
                        /\ pc' = Upd(pc, r, "rejected")
    /\ UNCHANGED <<formatVars, builderVars, pluginVars, route, received, hint, preIdx>>

\* the hook's awaited check has settled
hookChecked(r) ==
    /\ pc[r] = "awaitCheck"
    /\ ck[r].st \in {"returned", "rejected"}
    /\ IF ck[r].st = "rejected"
       THEN /\ pc' = Upd(pc, r, "rejected")
            /\ UNCHANGED <<ck, replies>>
       ELSE /\ pc' = Upd(pc, r, "resolved")
            /\ ck' = Upd(ck, r, [ck[r] EXCEPT !.st = "done"])
            /\ replies' = Upd(replies, r,
                              IF Cardinality(DOMAIN ck[r].errorsObject) > 0
                              THEN Append(replies[r],
                                          CheckFailure(options.hint, ck[r].errorsObject))
                              ELSE replies[r])
    /\ UNCHANGED <<formatVars, builderVars, pluginVars, route, received, fields, hint, preIdx, sv, calls>>

(***************************************************************************)
(* The plugin and the requests to a route with a validation option.        *)
(***************************************************************************)
HookCheckFns == {"void", "empty", "x1", "x2", "status", "errs", "reject", "notfn"}
HookSchemas ==
    {NoRouteOptions._zodSchema}
        \cup {ZodSchema(b, "none", p) : b \in {"none", "zod"}, p \in {"none", "zod"}}
HookChecks ==
    {NoRouteOptions._routeChecks}
        \cup {RouteChecks(list) : list \in BoundedSeq(HookCheckFns, MaxChecks)}
HookOptions == {<< >>, [hint |-> Str("Bad input")]}

InitHook ==
    /\ checks = << >>
    /\ preHandlers = << >>
    /\ schema = SchemaArg(NoConfig, "none", "none", "none")
    /\ routes = << >>
    /\ options \in {fastifyZod(opts) : opts \in HookOptions}
    /\ routeOptions = NoRouteOptions
    /\ InitRequests
    /\ InitFormatVars

NextHook ==
    \/ \E sch \in HookSchemas, cks \in HookChecks : onRoute(sch, cks)
    \/ \E r \in Requests, input \in Inputs : arrive(r, "HOOK", input)
    \/ \E r \in Requests : hook(r)
    \/ \E r \in Requests : hookParsed(r)
    \/ \E r \in Requests : check(r)
    \/ \E r \in Requests : hookChecked(r)
    \/ \E r \in Requests : hostNext(r)

SpecHook == InitHook /\ [][NextHook]_vars

(***************************************************************************)
(* Schema validation over every combination of schema slots and options.   *)
(* The check lists are fixed, so that the slots, the options and the       *)
(* request's values range widely.                                          *)
(***************************************************************************)
Formats == {"flat", "simple", "detailed"}
SchemaInputs ==
    [body : {Str("7"), Str("x")}, query : {Str("7"), Str("q")},
     params : {Str("7"), Str("y")}]

\* the config of a builder: { hint, format, soft, formatter }
SchemaConfigs ==
    {[Config(Str("Bad input"), f, s) EXCEPT !.formatter = fm] :
        f \in Formats, s \in BOOLEAN, fm \in BOOLEAN}
\* a builder's schema argument: with a config, without one, or absent
SlotSchemas ==
    {SchemaArg(cfg, b, q, p) : cfg \in SchemaConfigs, b \in Slots, q \in Slots, p \in Slots}
        \cup {SchemaArg(NoConfig, "none", "none", "none"),
              SchemaArg(NoConfig, "zod", "none", "none"), NoSchemaArg}
\* the builders of fastify.schema() and fastify.schema({ body })
DecoratedSchemas ==
    {fastify_schema(Config(DefaultHint, "flat", FALSE), NoSchemaArg),
     fastify_schema(Config(DefaultHint, "flat", FALSE),
                    SchemaArg(NoConfig, "zod", "none", "none"))}

InitSchema ==
    /\ checks \in {<< >>, <<"C">>}
    /\ preHandlers = << >>
    /\ schema \in SlotSchemas \cup DecoratedSchemas
    /\ routes = << >>
    /\ options = Config(DefaultHint, "flat", FALSE)
    /\ routeOptions = NoRouteOptions
    /\ InitRequests
    /\ InitFormatVars

NextSchema ==
    \/ make("POST")
    \/ \E r \in Requests, input \in SchemaInputs : arrive(r, "POST", input)
    \/ \E r \in Requests : preHandler(r)
    \/ \E r \in Requests : schemaValidation(r)
    \/ \E r \in Requests : check(r)
    \/ \E r \in Requests : runChecks(r)
    \/ \E r \in Requests : hostNext(r)

SpecSchema == InitSchema /\ [][NextSchema]_vars

\* the opts a plugin is registered with
SchemaOptions ==
    {<< >>, [soft |-> TRUE], [format |-> "simple"], [format |-> "detailed"],
     [formatter |-> TRUE], [formatter |-> TRUE, format |-> "simple", soft |-> TRUE],
     [hint |-> Str("Bad input"), format |-> "simple", soft |-> TRUE]}
SlotZodSchemas ==
    {NoRouteOptions._zodSchema}
        \cup {ZodSchema(b, q, p) : b \in Slots, q \in Slots, p \in Slots}
SlotChecks ==
    {NoRouteOptions._routeChecks, RouteChecks(<<"void">>), RouteChecks(<<"x1">>),
     RouteChecks(<<"reject">>), RouteChecks(<<"rejectMap">>)}

InitHookSchema ==
    /\ checks = << >>
    /\ preHandlers = << >>
    /\ schema = SchemaArg(NoConfig, "none", "none", "none")
    /\ routes = << >>
    /\ options \in {fastifyZod(opts) : opts \in SchemaOptions}
    /\ routeOptions = NoRouteOptions
    /\ InitRequests
    /\ InitFormatVars

NextHookSchema ==
    \/ \E sch \in SlotZodSchemas, cks \in SlotChecks : onRoute(sch, cks)
    \/ \E r \in Requests, input \in SchemaInputs : arrive(r, "HOOK", input)
    \/ \E r \in Requests : hook(r)
    \/ \E r \in Requests : hookParsed(r)
    \/ \E r \in Requests : check(r)
    \/ \E r \in Requests : hookChecked(r)
    \/ \E r \in Requests : hostNext(r)

SpecHookSchema == InitHookSchema /\ [][NextHookSchema]_vars

(***************************************************************************)
(* formatErrors (lib/utils.ts) applied to issue lists.                     *)
(***************************************************************************)
\* longest issue list formatErrors is given
MaxIssues == 2

\* the paths [], ["a"], ["a", "b"], ["a.b"], ["_root"], ["toString"]
Paths ==
    {<< >>, <<<<"a">>>>, <<<<"a">>, <<"b">>>>, <<<<"a", ".", "b">>>>, <<<<"_", "root">>>>,
     <<<<"toString">>>>}
\* the format arguments: the three of the type, and one that is none of them
FormatArgs == Formats \cup {"compact"}
Issues == {Issue(path, m) : path \in Paths, m \in {"m1", "m2"}}

\* formatErrors(issueList, format) is called
callFormatErrors(format) ==
    /\ formatted = NotFormatted
    /\ formatted' = [format |-> format, value |-> formatErrors(issueList, format)]
    /\ UNCHANGED <<builderVars, pluginVars, requestVars, issueList>>

InitFormat ==
    /\ checks = << >>
    /\ preHandlers = << >>
    /\ schema = SchemaArg(NoConfig, "none", "none", "none")
    /\ routes = << >>
    /\ options = Config(DefaultHint, "flat", FALSE)
    /\ routeOptions = NoRouteOptions
    /\ InitRequests
    /\ issueList \in BoundedSeq(Issues, MaxIssues)
    /\ formatted = NotFormatted

NextFormat == \E format \in FormatArgs : callFormatErrors(format)

SpecFormat == InitFormat /\ [][NextFormat]_vars

(***************************************************************************)
(* Two requests in flight on one route of a builder:                       *)
(* defineRoute(fastify, schema).pre(A).check([x1, C]).post(url, handler),  *)
(* and the same builder given a value that is no function before A and     *)
(* between x1 and C.                                                       *)
(***************************************************************************)
ConcurrentSchema ==
    SchemaArg(Config(Str("Bad input"), "simple", FALSE), "zod", "none", "zod")

InitConcurrent ==
    /\ checks \in {<<"x1", "C">>, <<"x1", "notfn", "C">>}
    /\ preHandlers \in {<<"A">>, <<"notfn", "A">>}
    /\ schema = ConcurrentSchema
    /\ routes = [m \in {"POST"} |-> Len(checks)]
    /\ options = Config(DefaultHint, "flat", FALSE)
    /\ routeOptions = NoRouteOptions
    /\ pc = [r \in Requests |-> "idle"]
    /\ route = [r \in Requests |-> "none"]
    /\ received = [r \in Requests |-> [body |-> Undefined, query |-> Undefined,
                                       params |-> Undefined]]
    /\ fields = [r \in Requests |-> [body |-> Undefined, query |-> Undefined,
                                     params |-> Undefined]]
    /\ hint = [r \in Requests |-> Undefined]
    /\ preIdx = [r \in Requests |-> 0]
    /\ sv = [r \in Requests |-> SvIdle]
    /\ ck = [r \in Requests |-> CkIdle]
    /\ replies = [r \in Requests |-> << >>]
    /\ calls = [r \in Requests |-> << >>]
    /\ InitFormatVars

NextConcurrent ==
    \/ \E r \in Requests, input \in Inputs : arrive(r, "POST", input)
    \/ \E r \in Requests : preHandler(r)
    \/ \E r \in Requests : preResolved(r)
    \/ \E r \in Requests : schemaValidation(r)
    \/ \E r \in Requests : check(r)
    \/ \E r \in Requests : runChecks(r)
    \/ \E r \in Requests : hostNext(r)

SpecConcurrent == InitConcurrent /\ [][NextConcurrent]_vars

(***************************************************************************)
(* Properties.                                                             *)
(***************************************************************************)
\* the check functions invoked for request r, in order
CheckCalls(r) == SelectSeq(calls[r], LAMBDA c : c[1] = "check")
\* the pre-steps invoked for request r, in order
PreCalls(r) == SelectSeq(calls[r], LAMBDA c : c[1] = "pre")
\* a reply.send of request r made by stage who
SentBy(r, who) == \E i \in 1..Len(replies[r]) : replies[r][i].by = who
\* the hint configured for the route of request r
ConfiguredHint(r) == IF route[r] = "HOOK" THEN options.hint ELSE schema.config.hint
\* the keys of a check function's result
KeysOf(fn) == {CheckFn(fn).entries[i].k : i \in 1..Len(CheckFn(fn).entries)}
\* the value a check function's result holds under key k
ValueOf(fn, k) ==
    LET es == CheckFn(fn).entries
        i  == CHOOSE i \in 1..Len(es) :
                  es[i].k = k /\ \A j \in (i + 1)..Len(es) : es[j].k # k
    IN  es[i].v

\* C1: on a route of the builder the preHandler runs pre-steps, then schema
\* validation, then checks: while a pre-step is awaited neither schema
\* validation nor the checks have started, and when the first check function
\* is invoked schema validation of all configured sources has completed.
C1_PreThenSchemaThenChecks ==
    \A r \in Requests :
        route[r] \in Methods =>
            /\ pc[r] = "awaitPre" => sv[r].st = "none" /\ ck[r].st = "none"
            /\ CheckCalls(r) # << >> => sv[r].st \notin {"none", "await"}

\* C2: a request that fails schema validation is halted: a 400 is sent, no
\* check function is invoked for it and the route handler is not invoked.
C2_SchemaFailureHalts ==
    \A r \in Requests :
        sv[r].result = Bool(TRUE) =>
            /\ \E i \in 1..Len(replies[r]) :
                  replies[r][i].by = "schema" /\ replies[r][i].status = 400
            /\ CheckCalls(r) = << >>
            /\ pc[r] # "handler"

\* C3: the pipeline sends at most one response per request.
C3_AtMostOneResponse ==
    \A r \in Requests : Len(replies[r]) <= 1

\* C4: once a pre-step of a builder route has sent a response, nothing runs
\* after it: no later pre-step, no schema validation, no check function.
C4_PreStepResponseStops ==
    \A r \in Requests :
        SentBy(r, "pre") =>
            /\ calls[r][Len(calls[r])] = <<"pre", "deny">>
            /\ \A i \in 1..(Len(calls[r]) - 1) : calls[r][i] # <<"pre", "deny">>
            /\ sv[r].st = "none"
            /\ ck[r].st = "none"

\* C5: a route runs the checks the builder held when the verb call registered
\* it, and none that check() appended afterwards.
C5_RouteKeepsItsChecks ==
    \A r \in Requests :
        route[r] \in Methods =>
            \A i \in 1..Len(CheckCalls(r)) :
                /\ i <= routes[route[r]]
                /\ CheckCalls(r)[i] = <<"check", checks[i]>>

\* C6: once check() has put a check on the builder's list, no pre-step is
\* appended to the pre-step list any more.
C6_NoPreAfterCheck ==
    [][Len(checks) > 0 => preHandlers' = preHandlers]_vars

\* C7: after the checks of a request have run, a non-empty error object is
\* sent as a 400 whose body has statusCode 400, the configured hint as message
\* and the fields of the error object, and the handler is not invoked; an empty
\* error object sends nothing.
C7_CheckOutcome ==
    \A r \in Requests :
        ck[r].st = "done" =>
            IF DOMAIN ck[r].errorsObject # {}
            THEN /\ \E i \in 1..Len(replies[r]) :
                       /\ replies[r][i].by = "checks"
                       /\ replies[r][i].status = 400
                       /\ replies[r][i].body[KStatusCode] = Num(400)
                       /\ replies[r][i].body[KMessage] = ConfiguredHint(r)
                       /\ \A k \in DOMAIN ck[r].errorsObject :
                             replies[r][i].body[k] = ck[r].errorsObject[k]
                 /\ pc[r] # "handler"
            ELSE ~SentBy(r, "checks")

\* the entries of the list whose result check has merged, or tried to merge
Merged(r) ==
    {j \in 1..Len(currentChecks(r)) :
        /\ IsFunction(currentChecks(r)[j])
        /\ \/ ck[r].st \in {"returned", "done"}
           \/ ck[r].st = "await" /\ j < ck[r].idx
           \/ ck[r].st = "rejected" /\ j <= ck[r].idx}

\* C8: of every mapping a check function returned, each key that starts with
\* an underscore is on the top level of the error object with that one
\* underscore removed, and each other key is under its errors sub-mapping.
C8_PromotedAndNested ==
    \A r \in Requests :
        \A j \in Merged(r) :
            \A k \in KeysOf(currentChecks(r)[j]) :
                IF k[1] = "_"
                THEN Tail(k) \in DOMAIN ck[r].errorsObject
                ELSE /\ IsObj(Get(ck[r].errorsObject, KErrors))
                     /\ k \in DOMAIN ck[r].errorsObject[KErrors][2]

\* C9: a key that several checks of a request report holds, in the merged
\* error object, the value of the last of them in declared order.
C9_LastWriteWins ==
    \A r \in Requests :
        ck[r].st \in {"returned", "done"} =>
            LET list == currentChecks(r)
                Reporting(k) == {j \in Merged(r) : k \in KeysOf(list[j])}
                Last(k) == CHOOSE j \in Reporting(k) : \A i \in Reporting(k) : i <= j
            IN  \A k \in UNION {KeysOf(list[j]) : j \in Merged(r)} :
                    Cardinality(Reporting(k)) >= 2 =>
                        IF k[1] = "_"
                        THEN Get(ck[r].errorsObject, Tail(k)) = ValueOf(list[Last(k)], k)
                        ELSE /\ IsObj(Get(ck[r].errorsObject, KErrors))
                             /\ Get(ck[r].errorsObject[KErrors][2], k)
                                    = ValueOf(list[Last(k)], k)

\* the pre-steps and check functions of request r that are in progress
InProgress(r) ==
    (IF pc[r] = "awaitPre" THEN {<<"pre", preIdx[r]>>} ELSE {})
        \cup {<<"check", j>> : j \in ck[r].pending}

\* what merging the results of the functions among the first n entries gives
MergedUpTo(list, n) ==
    LET RECURSIVE F(_, _)
        F(obj, j) == IF j > n THEN obj
                     ELSE IF IsFunction(list[j])
                     THEN F(merge(obj, CheckFn(list[j])).obj, j + 1)
                     ELSE F(obj, j + 1)
    IN  F(EmptyObj, 1)

\* the calls of the functions among the first n entries, in list order
FunctionsUpTo(list, n) ==
    LET RECURSIVE F(_)
        F(j) == IF j > n THEN << >>
                ELSE IF IsFunction(list[j]) THEN <<<<"check", list[j]>>>> \o F(j + 1)
                ELSE F(j + 1)
    IN  F(1)

\* C10: the check functions of a request are invoked one at a time in declared
\* order, each after the result of the one before it was merged; no two check
\* functions or pre-steps of a request are in progress together.
C10_OneAtATime ==
    \A r \in Requests :
        /\ Cardinality(InProgress(r)) <= 1
        /\ ck[r].st = "await" =>
              /\ ck[r].pending = {ck[r].idx}
              /\ ck[r].errorsObject = MergedUpTo(currentChecks(r), ck[r].idx - 1)
              /\ CheckCalls(r) = FunctionsUpTo(currentChecks(r), ck[r].idx)

\* C10 witness: after a pre-step, the second check is in progress and the
\* result of the first is merged
C10_Witness ==
    \E r \in Requests :
        /\ PreCalls(r) # << >>
        /\ ck[r].st = "await"
        /\ ck[r].idx = 2
        /\ ck[r].errorsObject # EmptyObj

\* the schema slots and the options that apply to the route of request r
SlotsOf(r) == IF route[r] = "HOOK" THEN routeOptions._zodSchema ELSE schemaObj
ConfigOf(r) == IF route[r] = "HOOK" THEN options ELSE schema.config
\* the errors value of the schema-failure response for the issues
ErrorsOf(cfg, issues) ==
    IF cfg.formatter THEN formatter(issues) ELSE formatErrors(issues, cfg.format)
\* the schema-failure responses of request r
SchemaReplies(r) == SelectSeq(replies[r], LAMBDA m : m.by = "schema")
\* source k of request r holds the value the request arrived with
Untouched(r, k) == fields[r][Sources[k]] = received[r][Sources[k]]
\* source k of request r holds the output of parsing the value it arrived with
Parsed(r, k) ==
    /\ parseAsync(received[r][Sources[k]]).ok
    /\ fields[r][Sources[k]] = parseAsync(received[r][Sources[k]]).data

\* C11: schema validation takes the sources in the order body, query, params:
\* when it stands at a source, the configured sources before it are parsed and
\* the sources after it are untouched; and the first source that fails ends it:
\* the later fields stay as they arrived and the 400 holds the issues of the
\* failing source alone.
C11_SourcesInOrder ==
    \A r \in Requests :
        sv[r].src > 0 =>
            LET j == sv[r].src
            IN  /\ \A k \in 1..(j - 1) :
                      IF SlotsOf(r)[Sources[k]] = "zod" THEN Parsed(r, k) ELSE Untouched(r, k)
                /\ \A k \in (j + 1)..Len(Sources) : Untouched(r, k)
                /\ sv[r].result = Bool(TRUE) =>
                      /\ Untouched(r, j)
                      /\ ~parseAsync(received[r][Sources[j]]).ok
                      /\ Len(SchemaReplies(r)) = 1
                      /\ SchemaReplies(r)[1].body[KErrors] =
                            ErrorsOf(ConfigOf(r), parseAsync(received[r][Sources[j]]).issues)

\* C11 witness: body was parsed, query failed, and params, which would fail
\* as well, was left as it arrived
C11_Witness ==
    \E r \in Requests :
        /\ sv[r].result = Bool(TRUE)
        /\ sv[r].src = 2
        /\ \A k \in 1..Len(Sources) : SlotsOf(r)[Sources[k]] = "zod"
        /\ fields[r].body = Num(7)
        /\ fields[r].params = Str("y")
        /\ SentBy(r, "schema")

\* schema validation of request r comes to source k and parses its value
Reaches(r, k) ==
    /\ ConfigOf(r).given
    /\ SlotsOf(r)[Sources[k]] = "zod"
    /\ parseAsync(received[r][Sources[k]]).ok
    /\ \A i \in 1..(k - 1) :
          \/ SlotsOf(r)[Sources[i]] = "none"
          \/ SlotsOf(r)[Sources[i]] = "zod" /\ parseAsync(received[r][Sources[i]]).ok

\* C12: a request field whose schema parses the request's value holds the
\* parsed output, not the value that arrived, when a check function of the
\* request is invoked and when its handler is invoked.
C12_ParsedValueSeen ==
    \A r \in Requests :
        (CheckCalls(r) # << >> \/ pc[r] = "handler") =>
            \A k \in 1..Len(Sources) : Reaches(r, k) => Parsed(r, k)

\* the preHandler of request r has been called
Entered(r) == pc[r] \notin {"idle", "absent", "start"}

\* C13: with soft true and a value without parse configured for body, nothing
\* is thrown and no schema 400 is sent: body stays as it arrived and the host
\* goes on to the handler, unless a check sent a response
C13_SoftBodyProceeds ==
    \A r \in Requests :
        (Entered(r) /\ ConfigOf(r).soft /\ SlotsOf(r).body = "bad") =>
            /\ sv[r].st # "rejected"
            /\ pc[r] \notin {"rejected", "error"}
            /\ SchemaReplies(r) = << >>
            /\ Untouched(r, 1)
            /\ pc[r] = "halted" => SentBy(r, "checks")

\* C13 witness: such a request has reached its handler
C13_Witness ==
    \E r \in Requests :
        /\ ConfigOf(r).soft
        /\ SlotsOf(r).body = "bad"
        /\ pc[r] = "handler"
        /\ fields[r].body = Str("x")

\* schema validation of request r would come to source k and parse its value
\* if every slot without parse were a slot without schema
SoftReaches(r, k) ==
    /\ ConfigOf(r).given
    /\ SlotsOf(r)[Sources[k]] = "zod"
    /\ parseAsync(received[r][Sources[k]]).ok
    /\ \A i \in 1..(k - 1) :
          \/ SlotsOf(r)[Sources[i]] \in {"none", "bad"}
          \/ SlotsOf(r)[Sources[i]] = "zod" /\ parseAsync(received[r][Sources[i]]).ok

\* C14: with soft true a slot without parse counts as a slot without schema:
\* when the host has gone on past the preHandler, the sources with a Zod
\* schema are parsed all the same, and when none of them failed the check
\* functions of the route have run.
C14_SoftSkipContinues ==
    \A r \in Requests :
        (/\ pc[r] \in {"handler", "halted"}
         /\ ConfigOf(r).soft
         /\ \E k \in 1..Len(Sources) : SlotsOf(r)[Sources[k]] = "bad") =>
            /\ \A k \in 1..Len(Sources) : SoftReaches(r, k) => Parsed(r, k)
            /\ (\A k \in 1..Len(Sources) :
                    SlotsOf(r)[Sources[k]] = "zod" => SoftReaches(r, k)) =>
                  CheckCalls(r) = FunctionsUpTo(currentChecks(r), Len(currentChecks(r)))

\* C15: with soft false a slot without parse raises an error that reaches the
\* host: the preHandler rejects, no 400 is sent for it, and the handler is not
\* invoked.
C15_ConfigurationErrorPropagates ==
    \A r \in Requests :
        (sv[r].st = "rejected" /\ ~ConfigOf(r).soft) =>
            /\ SchemaReplies(r) = << >>
            /\ pc[r] \in {"rejected", "error"}

\* the paths of the issues, as keys
PathKeys(issues) == {pathKey(issues[i]) : i \in 1..Len(issues)}

\* the response the client of request r receives: the first one sent
Response(r) == replies[r][1]

\* C16: a failed parse is answered, never thrown: the request's response has
\* status 400 and its body holds the request's id, success false, the
\* configured hint as message, the formatted issues as errors (with an entry
\* for every failing path) and a timestamp.
C16_SchemaFailureResponse ==
    \A r \in Requests :
        /\ (sv[r].st = "rejected" /\ sv[r].src > 0) => SlotsOf(r)[Sources[sv[r].src]] = "bad"
        /\ sv[r].result = Bool(TRUE) =>
              LET issues == parseAsync(received[r][Sources[sv[r].src]]).issues
                  cfg    == ConfigOf(r)
              IN  /\ Response(r).by = "schema"
                  /\ Response(r).status = 400
                  /\ DOMAIN Response(r).body =
                        {<<"requestId">>, <<"success">>, KMessage, KErrors, <<"timestamp">>}
                  /\ Response(r).body[<<"requestId">>] = Str(r)
                  /\ Response(r).body[<<"success">>] = Bool(FALSE)
                  /\ Response(r).body[KMessage] = cfg.hint
                  /\ Response(r).body[KErrors] = ErrorsOf(cfg, issues)
                  /\ (~cfg.formatter /\ cfg.format \in {"flat", "simple"}) =>
                        DOMAIN Response(r).body[KErrors][2] = PathKeys(issues)

\* C17: with a custom formatter configured, the errors of every schema-failure
\* response are what the formatter returns for the issues of the failing
\* source, whatever the format option is.
C17_FormatterUsed ==
    \A r \in Requests :
        (ConfigOf(r).formatter /\ SchemaReplies(r) # << >>) =>
            /\ sv[r].result = Bool(TRUE)
            /\ \A i \in 1..Len(SchemaReplies(r)) :
                  SchemaReplies(r)[i].body[KErrors] =
                      formatter(parseAsync(received[r][Sources[sv[r].src]]).issues)

\* C17 witness: a schema failure under a formatter, for each format option
C17_Witness ==
    \E r \in Requests :
        /\ ConfigOf(r).formatter
        /\ ConfigOf(r).format = "simple"
        /\ SchemaReplies(r) # << >>
        /\ received[r].params = Str("y")
        /\ sv[r].src = 3

\* C18: a plugin registered without options works with hint "Invalid data
\* submitted", format "simple", verbose false and soft false, and its
\* schema-failure responses report the errors in the simple shape.
C18_DefaultOptions ==
    \A r \in Requests :
        (Entered(r) /\ route[r] = "HOOK" /\ options = fastifyZod(<< >>)) =>
            /\ options.hint = Str("Invalid data submitted")
            /\ options.format = "simple"
            /\ options.verbose = FALSE
            /\ options.soft = FALSE
            /\ \A i \in 1..Len(SchemaReplies(r)) :
                  SchemaReplies(r)[i].body[KErrors] =
                      formatErrors(parseAsync(received[r][Sources[sv[r].src]]).issues, "simple")

\* C19: in flat and in simple mode formatErrors returns an entry for every
\* path of the issues and for nothing else, and issues of different paths
\* never share an entry.
C19_ExactlyThePaths ==
    formatted.format \in {"flat", "simple"} =>
        /\ IsObj(formatted.value)
        /\ DOMAIN formatted.value[2] = PathKeys(issueList)
        /\ \A i, j \in 1..Len(issueList) :
              pathKey(issueList[i]) = pathKey(issueList[j]) =>
                  issueList[i].path = issueList[j].path

\* the position of the last issue whose dotted path is k
LastAt(issues, k) ==
    CHOOSE i \in 1..Len(issues) :
        /\ pathKey(issues[i]) = k
        /\ \A j \in (i + 1)..Len(issues) : pathKey(issues[j]) # k

\* C20: in flat mode formatErrors maps every dotted path of the issues (_root
\* for the empty path) to the message of the last issue of that path.
C20_FlatLastMessage ==
    formatted.format = "flat" =>
        /\ IsObj(formatted.value)
        /\ DOMAIN formatted.value[2] = PathKeys(issueList)
        /\ \A k \in PathKeys(issueList) :
              formatted.value[2][k] = Str(issueList[LastAt(issueList, k)].message)

\* C20 witness: two issues of the path a.b with different messages, and one
\* issue of the empty path, formatted flat
C20_Witness ==
    /\ formatted.format = "flat"
    /\ Len(issueList) = 2
    /\ issueList[1].path = issueList[2].path
    /\ issueList[1].message = "m1"
    /\ issueList[2].message = "m2"
    /\ formatted.value[2][pathKey(issueList[1])] = Str("m2")

\* the messages of the issues whose dotted path is k, in issue order
MessagesAt(issues, k) ==
    LET RECURSIVE M(_)
        M(i) == IF i > Len(issues) THEN << >>
                ELSE IF pathKey(issues[i]) = k THEN <<Str(issues[i].message)>> \o M(i + 1)
                ELSE M(i + 1)
    IN  M(1)

\* C21: in simple mode, and for a format that is neither flat nor detailed,
\* formatErrors maps every dotted path of the issues to the list of all the
\* messages of that path in issue order.
C21_SimpleAllMessages ==
    formatted.format \in {"simple", "compact"} =>
        /\ IsObj(formatted.value)
        /\ DOMAIN formatted.value[2] = PathKeys(issueList)
        /\ \A k \in PathKeys(issueList) :
              formatted.value[2][k] = List(MessagesAt(issueList, k))

\* the route of request r has no schema, no checks and no pre-steps
NothingConfigured(r) ==
    IF route[r] = "HOOK"
    THEN /\ \A k \in 1..Len(Sources) : routeOptions._zodSchema[Sources[k]] = "none"
         /\ routeOptions._routeChecks.list = << >>
    ELSE /\ \A k \in 1..Len(Sources) : schema[Sources[k]] = "none"
         /\ checks = << >>
         /\ preHandlers = << >>

\* C22: for a request to a route with no schema and no checks the pipeline
\* does nothing: it sends no response, raises no error, leaves body, query and
\* params as they arrived, and the host goes on to the handler.
C22_NothingConfiguredNoOp ==
    \A r \in Requests :
        (Entered(r) /\ NothingConfigured(r)) =>
            /\ replies[r] = << >>
            /\ pc[r] \in {"resolved", "handler"}
            /\ fields[r] = received[r]

\* the builder of request r's route came from fastify.schema(...)
Decorated(r) == route[r] \notin {"none", "HOOK"} /\ schema.hint # Undefined

\* C23: on a route of a builder obtained from fastify.schema() the
\* schema-failure and check-failure responses carry the plugin's hint as
\* message, and the errors of a schema-failure response are the issues
\* formatted with the plugin's format or formatter.
C23_DecoratedUsesPluginOptions ==
    \A r \in Requests :
        Decorated(r) =>
            \A i \in 1..Len(replies[r]) :
                /\ replies[r][i].by \in {"schema", "checks"} =>
                      replies[r][i].body[KMessage] = options.hint
                /\ replies[r][i].by = "schema" =>
                      replies[r][i].body[KErrors] =
                          ErrorsOf(options, parseAsync(received[r][Sources[sv[r].src]]).issues)

\* the calls of the functions among the pre-steps, in list order
PreStepsOf(list) ==
    LET RECURSIVE F(_)
        F(j) == IF j > Len(list) THEN << >>
                ELSE IF IsFunction(list[j]) THEN <<<<"pre", list[j]>>>> \o F(j + 1)
                ELSE F(j + 1)
    IN  F(1)

\* a verb call: the routes registered with the host change
VerbCall == routes' # routes

\* C24: a verb call registers exactly one route, for its method, and leaves
\* the routes registered before and the builder as they were; a request to
\* any of the builder's routes goes through the builder's pre-steps, schema
\* and checks.
C24_EachVerbOneRoute ==
    /\ [][VerbCall =>
            /\ \E m \in Methods :
                  /\ m \notin DOMAIN routes
                  /\ DOMAIN routes' = DOMAIN routes \cup {m}
            /\ \A y \in DOMAIN routes : routes'[y] = routes[y]
            /\ <<checks, preHandlers, schema>>' = <<checks, preHandlers, schema>>]_vars
    /\ [](\A r \in Requests :
            (route[r] \in Methods /\ ck[r].st \in {"returned", "done"}) =>
                /\ PreCalls(r) = PreStepsOf(preHandlers)
                /\ CheckCalls(r) = FunctionsUpTo(checks, Len(checks))
                /\ hint[r] = schema.config.hint
                /\ sv[r].src > 0 => schema[Sources[sv[r].src]] # "none")

\* C24 witness: get and post were both called on the builder, and a request
\* to the post route has gone through a pre-step and a check
C24_Witness ==
    /\ DOMAIN routes = {"GET", "POST"}
    /\ \E r \in Requests :
          /\ route[r] = "POST"
          /\ ck[r].st = "done"
          /\ PreCalls(r) # << >>
          /\ CheckCalls(r) # << >>

\* everything the pipeline holds for request r
StateOf(r) ==
    <<pc[r], route[r], received[r], fields[r], hint[r], preIdx[r], sv[r], ck[r],
      replies[r], calls[r]>>

\* what request r holds was produced from its own input by the route's lists
OwnResults(r) ==
    /\ \A k \in 1..Len(Sources) : Untouched(r, k) \/ Parsed(r, k)
    /\ ck[r].st = "await" => ck[r].errorsObject = MergedUpTo(checks, ck[r].idx - 1)
    /\ ck[r].st \in {"returned", "done"} =>
          ck[r].errorsObject = MergedUpTo(checks, Len(checks))
    /\ \A i \in 1..Len(replies[r]) :
          /\ replies[r][i].by = "schema" =>
                /\ replies[r][i].body[<<"requestId">>] = Str(r)
                /\ replies[r][i].body[KErrors] =
                       ErrorsOf(schema.config,
                                parseAsync(received[r][Sources[sv[r].src]]).issues)
          /\ replies[r][i].by = "checks" =>
                replies[r][i] = CheckFailure(schema.config.hint,
                                             MergedUpTo(checks, Len(checks)))

\* C25: requests in flight on one route do not interfere: a step of request
\* processing leaves the route's schema, pre-step and check lists as they
\* were and changes what is held for one request only, and what each request
\* holds (parsed values, merged error object, responses) is the result of its
\* own input, under every interleaving.
C25_NoInterference ==
    /\ [][requestVars' # requestVars =>
            /\ builderVars' = builderVars
            /\ \E r \in Requests :
                  \A q \in Requests \ {r} : StateOf(q)' = StateOf(q)]_vars
    /\ [](\A r \in Requests : OwnResults(r))

\* C25 witness: both requests are in flight with different bodies, one
\* answered for its failed body while the other is in the middle of its checks
C25_Witness ==
    \E r \in Requests, q \in Requests :
        /\ r # q
        /\ received[r].body # received[q].body
        /\ SentBy(r, "schema")
        /\ ck[q].st = "await"
        /\ ck[q].idx = 2
        /\ fields[q].body = Num(7)

\* C26: a source for which no schema is configured holds the value the
\* request arrived with at every point of the pipeline, whether the other
\* sources were parsed, failed or were skipped.
C26_UnconfiguredSourceUntouched ==
    \A r \in Requests :
        \A k \in 1..Len(Sources) :
            (Entered(r) /\ SlotsOf(r)[Sources[k]] = "none") => Untouched(r, k)

\* C26 witness: body has no schema, query was parsed to another value and
\* params failed
C26_Witness ==
    \E r \in Requests :
        /\ SlotsOf(r).body = "none"
        /\ Parsed(r, 2)
        /\ ~Untouched(r, 2)
        /\ sv[r].src = 3
        /\ sv[r].result = Bool(TRUE)
        /\ received[r].body # Undefined

\* the arguments reject is given: strings and mappings
RejectArgs ==
    {Str("r"), Str(""), Rec(<< >>), Rec(<<Entry(<<"x">>, Str("m1"))>>),
     Rec(<<Entry(<<"_", "message">>, Str("m")), Entry(<<"x">>, Str("m1"))>>)}

\* C27: reject of a string is the mapping with the one key _message holding
\* the string, and reject of a mapping is that mapping; the error object of a
\* route whose one check returns reject of a string is a top-level message
\* with no errors sub-mapping, and that of a check returning reject of a
\* mapping is the one the mapping itself gives.
C27_Reject ==
    /\ \A a \in RejectArgs :
          IF a[1] = "str"
          THEN reject(a) = Mapping(<<Entry(<<"_", "message">>, a)>>)
          ELSE reject(a) = Mapping(a[2])
    /\ \A r \in Requests :
          ck[r].st \in {"returned", "done"} =>
              /\ currentChecks(r) = <<"reject">> =>
                    /\ DOMAIN ck[r].errorsObject = {KMessage}
                    /\ ck[r].errorsObject[KMessage] = Str("r")
              /\ currentChecks(r) = <<"rejectMap">> =>
                    ck[r].errorsObject = MergedUpTo(<<"x1">>, 1)

\* C27 witness: the check of the route returned reject of a string and its
\* result is merged
C27_Witness ==
    \E r \in Requests :
        /\ currentChecks(r) = <<"reject">>
        /\ ck[r].st = "done"
        /\ KMessage \in DOMAIN ck[r].errorsObject

\* s is the beginning of t
IsPrefix(s, t) == Len(s) <= Len(t) /\ SubSeq(t, 1, Len(s)) = s

\* C28: check(fn) and check([fn1, ..., fnk]) put their functions at the end of
\* the check list in the order given, pre(fn) puts fn at the end of the pre-step
\* list; the pre-steps and the checks a request has invoked are, at every
\* moment, the beginning of these lists in list order, all pre-steps before
\* the first check, and all of them once the checks have run.
C28_AccumulatedOrder ==
    /\ [][/\ checks' # checks => \E fns \in CheckArgs : checks' = checks \o fns
          /\ preHandlers' # preHandlers =>
                \E fn \in PreFns : preHandlers' = Append(preHandlers, fn)]_vars
    /\ [](\A r \in Requests :
            route[r] \in Methods =>
                /\ IsPrefix(PreCalls(r), PreStepsOf(preHandlers))
                /\ IsPrefix(CheckCalls(r), FunctionsUpTo(checks, Len(checks)))
                /\ CheckCalls(r) # << >> => PreCalls(r) = PreStepsOf(preHandlers)
                /\ ck[r].st \in {"returned", "done"} =>
                      CheckCalls(r) = FunctionsUpTo(checks, Len(checks)))

\* C28 witness: pre(A), pre(deny) and the checks B then C were put on the
\* builder, and a request has invoked them all
C28_Witness ==
    \E r \in Requests :
        /\ PreCalls(r) = <<<<"pre", "A">>, <<"pre", "deny">>>>
        /\ CheckCalls(r) = <<<<"check", "B">>, <<"check", "C">>>>
        /\ ck[r].st = "done"

\* the entries of a list that are functions, in list order
Invocable(list) == SelectSeq(list, IsFunction)

\* C29: an entry of the check list or of the pre-step list that is not a
\* function is never invoked and raises no error; the functions of the list
\* are invoked in list order as if the entry were not there, and the error
\* object is the one the functions alone give.
C29_NonFunctionSkipped ==
    \A r \in Requests :
        /\ \A i \in 1..Len(calls[r]) : IsFunction(calls[r][i][2])
        /\ pc[r] \notin {"rejected", "error"}
        /\ ck[r].st # "rejected"
        /\ ck[r].st # "none" => PreCalls(r) = PreStepsOf(Invocable(preHandlers))
        /\ ck[r].st \in {"returned", "done"} =>
              /\ CheckCalls(r) = FunctionsUpTo(Invocable(checks), Len(Invocable(checks)))
              /\ ck[r].errorsObject =
                     MergedUpTo(Invocable(checks), Len(Invocable(checks)))

\* C29 witness: both lists hold an entry that is no function, and a request
\* has gone through the pre-step after it and the checks on both sides of it
C29_Witness ==
    \E r \in Requests :
        /\ preHandlers = <<"notfn", "A">>
        /\ checks = <<"x1", "notfn", "C">>
        /\ ck[r].st = "done"
        /\ PreCalls(r) = <<<<"pre", "A">>>>
        /\ CheckCalls(r) = <<<<"check", "x1">>, <<"check", "C">>>>

\* the preHandler of request r has completed
Completed(r) == pc[r] \in {"resolved", "rejected", "handler", "halted", "error"}
\* schema validation or the checks of request r are still on their way
Pending(r) == sv[r].st = "await" \/ ck[r].st \in {"await", "returned"}

\* C30: the preHandler of a request does not complete while schema validation
\* or checks of the request are pending, and the outcome of a request is one
\* of three: the handler is invoked and no response was sent by the pipeline,
\* or one response was sent and the handler is not invoked, or an error went
\* to the host and no response was sent by the pipeline.
C30_OneTerminalOutcome ==
    \A r \in Requests :
        /\ Completed(r) => ~Pending(r)
        /\ pc[r] = "handler" => replies[r] = << >>
        /\ pc[r] = "halted" => Len(replies[r]) = 1
        /\ pc[r] = "error" => replies[r] = << >>

\* the keys without a leading underscore that the merged checks of request r
\* returned
PlainKeys(r) ==
    UNION {{k \in KeysOf(currentChecks(r)[j]) : ~startsWith(k)} : j \in Merged(r)}

\* C31: the merge of the check results never fails, and the errors entry of
\* the error object, when present, is a mapping whose keys are exactly the
\* keys without a leading underscore that the merged checks returned,
\* whatever promoted keys (such as _errors) the checks returned as well.
C31_ErrorsEntryIsMapping ==
    \A r \in Requests :
        /\ ck[r].st # "rejected"
        /\ (ck[r].st # "none" /\ KErrors \in DOMAIN ck[r].errorsObject) =>
              /\ IsObj(ck[r].errorsObject[KErrors])
              /\ DOMAIN ck[r].errorsObject[KErrors][2] = PlainKeys(r)

\* C32: after a source has failed validation, every source with a schema
\* before it holds its parsed value, not the value it arrived with put back,
\* and the failing source and the sources after it hold the values they
\* arrived with.
C32_NoRollback ==
    \A r \in Requests :
        sv[r].result = Bool(TRUE) =>
            \A k \in 1..Len(Sources) :
                IF k < sv[r].src /\ SlotsOf(r)[Sources[k]] = "zod"
                THEN fields[r][Sources[k]] = parseAsync(received[r][Sources[k]]).data
                ELSE fields[r][Sources[k]] = received[r][Sources[k]]

\* C32 witness: params failed after body and query were parsed to values
\* other than the ones they arrived with
C32_Witness ==
    \E r \in Requests :
        /\ sv[r].result = Bool(TRUE)
        /\ sv[r].src = 3
        /\ fields[r].body = Num(7)
        /\ fields[r].query = Num(7)
        /\ received[r].body = Str("7")
        /\ received[r].query = Str("7")
        /\ fields[r].params = received[r].params

\* C33: in every check-failure response the statusCode of the body is 400 and
\* its message is the configured hint, whatever promoted keys the checks
\* returned.
C33_PipelineFieldsKept ==
    \A r \in Requests :
        \A i \in 1..Len(replies[r]) :
            replies[r][i].by = "checks" =>
                /\ replies[r][i].body[KStatusCode] = Num(400)
                /\ replies[r][i].body[KMessage] = ConfiguredHint(r)

====
